---- MODULE Spec2Model ----
(***************************************************************************)
(* A model of the command-line scripts of the repository:                  *)
(*   depletion/generate_endf81_chain.py, generate_jeff33_chain.py,         *)
(*   generate_jeff40_chain.py, generate_jendl_chain.py  (chain scripts)    *)
(*   generate_endf.py, generate_jendl.py                (library scripts)  *)
(* One behaviour is one run of one script.  The script, its command line   *)
(* and the files already on disk are chosen in Init; the actions are the   *)
(* steps of the script's main().  Everything outside the repository (the   *)
(* network, the content of the archives, the processing library) is a      *)
(* nondeterministic choice.                                                *)
(***************************************************************************)
EXTENDS Integers, Sequences, FiniteSets, TLC

\* Bounds of the model.
MaxFiles == 2       \* evaluation files a glob pattern can match in one directory
MaxPaths == 1       \* paths given after --neutron / --decay / --nfy
MaxArgs == 2        \* on/off flags on the command line of a library script
MaxParticles == 2   \* particles listed after --particles
MaxMembers == 2     \* members of an archive
MaxTasks == 2       \* evaluation files a pool section finds

VARIABLES
    script,         \* the script that runs
    pc,             \* position in main()
    err,            \* "" or the name of the exception that ended the run
    fs,             \* evaluation files on disk: records [dir, name]
    ui,             \* loop index over URLS / compressed_files
    dl_log,         \* the download() calls made so far
    endf_path,      \* chain scripts: the endf_path argument, then its value
    libdirs,        \* chain scripts: neutrons/, decay/ and nfy/ exist in cwd
    decay_files,    \* chain scripts: the three collections handed to the chain
    neutron_files,
    nfy_files,
    from_endf,      \* the Chain.from_endf call: [called, decay, nfy, neutron]
    exported,       \* the path given to export_to_xml, "" before
    jargs,          \* generate_jendl_chain: the parsed command line
    jcat,           \* generate_jendl_chain: index of the category being fetched
    ops,            \* generate_jendl_chain: per category, what was done for it
    args,           \* library scripts: download, extract, cleanup after parsing
    noflags,        \* library scripts: no on/off flag was on the command line
    release,        \* library scripts: --release
    particles,      \* library scripts: --particles, in the order given
    pidx,           \* library scripts: loop index over particles
    dl_exists,      \* library scripts: the download directory exists
    dl_dir,         \* library scripts: archives in it, records [particle, file]
    extracted,      \* library scripts: what extraction wrote
    rmtree_called,  \* library scripts: rmtree(download_path) has run
    processed,      \* library scripts: particles whose processing is complete
    registered,     \* library scripts: particles registered with the library
    members,        \* generate_endf: the members every archive holds, in order
    xdir,           \* generate_endf: files this run's extraction wrote
    jobs,           \* library scripts: evaluations a pool section submits
    tasks,          \* library scripts: per pool section, the tasks submitted
    pool,           \* library scripts: per pool section, the state of its Pool
    h5,             \* library scripts: per pool section, .h5 files written
    reg_calls,      \* library scripts: the register_file calls, in order
    zsymam          \* generate_jendl: the update_zsymam calls, in order

chainVars == <<endf_path, libdirs, decay_files, neutron_files, nfy_files,
               from_endf, exported, jargs, jcat, ops>>

libVars == <<args, noflags, release, particles, pidx, dl_exists, dl_dir,
             extracted, rmtree_called, processed, registered>>

extractVars == <<members, xdir>>

poolVars == <<jobs, tasks, pool, h5, reg_calls, zsymam>>

vars == <<script, pc, err, fs, ui, dl_log, endf_path, libdirs, decay_files,
          neutron_files, nfy_files, from_endf, exported, jargs, jcat, ops,
          args, noflags, release, particles, pidx, dl_exists, dl_dir,
          extracted, rmtree_called, processed, registered, members, xdir,
          jobs, tasks, pool, h5, reg_calls, zsymam>>

----------------------------------------------------------------------------
\* Python values

\* A collection as main() holds it: a list, or the generator Path.glob returns.
Coll(kind, items) == [kind |-> kind, items |-> items]

EmptyList == Coll("list", {})

\* bool(x) of Python: a list is true when it has an element, a generator
\* object is always true.
Truthy(c) == IF c.kind = "generator" THEN TRUE ELSE c.items # {}

File(d, n) == [dir |-> d, name |-> n]

InDir(files, d) == {f \in files : f.dir = d}

NoCall == [called |-> FALSE, decay |-> EmptyList, nfy |-> EmptyList,
           neutron |-> EmptyList]

Raise(e) == /\ err' = e
            /\ pc' = "error"

----------------------------------------------------------------------------
\* generate_endf81_chain.py, generate_jeff33_chain.py, generate_jeff40_chain.py

Jeff33 == "generate_jeff33_chain"
Jeff40 == "generate_jeff40_chain"
Endf81 == "generate_endf81_chain"
ChainScripts == {Endf81, Jeff33, Jeff40}

\* URLS of each script: the file downloaded, whether main() extracts it, and
\* the directory (relative to cwd) its evaluation files land in.
URLS(s) ==
    CASE s = Endf81 ->
           << [name |-> "neutrons-version.VIII.1.tar.gz", extract |-> TRUE,
               lands |-> "neutrons-version.VIII.1"],
              [name |-> "decay-version.VIII.1.tar.gz", extract |-> TRUE,
               lands |-> "decay-version.VIII.1"],
              [name |-> "nfy-version.VIII.1.tar.gz", extract |-> TRUE,
               lands |-> "nfy-version.VIII.1"] >>
      [] s = Jeff33 ->
           << [name |-> "JEFF33-n.tgz", extract |-> TRUE, lands |-> "endf6"],
              [name |-> "JEFF33-rdd.zip", extract |-> TRUE, lands |-> "decay"],
              [name |-> "JEFF33-nfy.asc", extract |-> FALSE, lands |-> "."] >>
      [] s = Jeff40 ->
           << [name |-> "JEFF40-Evaluations-Neutron-593.zip", extract |-> TRUE,
               lands |-> "neutrons"],
              [name |-> "nf_Fission_Yields_JEFF-40.txt", extract |-> FALSE,
               lands |-> "."],
              [name |-> "Radioactive_Decay_Data_JEFF-40.txt", extract |-> FALSE,
               lands |-> "."] >>

\* The renames after the download loop: <<from, to>>.
Renames(s) ==
    CASE s = Endf81 -> << <<"decay-version.VIII.1", "decay">>,
                          <<"neutrons-version.VIII.1", "neutrons">>,
                          <<"nfy-version.VIII.1", "nfy">> >>
      [] s = Jeff33 -> << <<"endf6", "neutrons">>,
                          <<"JEFF33-nfy.asc", "nfy">> >>
      [] s = Jeff40 -> << <<"nf_Fission_Yields_JEFF-40.txt", "nfy">>,
                          <<"Radioactive_Decay_Data_JEFF-40.txt", "decay">> >>

\* The categories main() reads as one fixed file instead of a glob.
SingleFile(s) ==
    CASE s = Endf81 -> {}
      [] s = Jeff33 -> {"nfy"}
      [] s = Jeff40 -> {"nfy", "decay"}

Categories == {"decay", "neutrons", "nfy"}

\* The files main() can find in directory d of endf_path: the matches of the
\* glob pattern, or the one file of a single-file category.
Matches(s, d) ==
    IF d \in SingleFile(s) THEN {File(d, 1)}
    ELSE {File(d, n) : n \in 1..MaxFiles}

\* The files a downloaded URL can put on disk.
Lands(s, u) ==
    IF u.extract THEN {File(u.lands, n) : n \in 1..MaxFiles}
    ELSE {File(u.name, 1)}

\* if endf_path is not None / elif all(is_dir) / else
ChainResolvePath ==
    /\ script \in ChainScripts
    /\ pc = "start"
    /\ IF endf_path = "given" THEN pc' = "glob" /\ endf_path' = endf_path
       ELSE IF libdirs THEN pc' = "glob" /\ endf_path' = "."
       ELSE pc' = "fetch" /\ endf_path' = endf_path
    /\ UNCHANGED <<extractVars, poolVars,
                   script, err, fs, ui, dl_log, libdirs, decay_files,
                   neutron_files, nfy_files, from_endf, exported, jargs, jcat, ops,
                   libVars>>

\* One turn of "for url in URLS": download, and extract where main() does.
\* download() raises or leaves the file; an extracted archive holds any
\* number of evaluation files.
ChainFetch ==
    /\ script \in ChainScripts
    /\ pc = "fetch"
    /\ LET u == URLS(script)[ui] IN
       \/ /\ Raise("DownloadError")
          /\ UNCHANGED <<fs, ui, dl_log>>
       \/ /\ dl_log' = dl_log \cup {[particle |-> "", file |-> u.name,
                                   checksum |-> "none"]}
          /\ \E content \in SUBSET Lands(script, u) :
                /\ u.extract \/ content = Lands(script, u)
                /\ fs' = fs \cup content
          /\ IF ui < Len(URLS(script))
             THEN ui' = ui + 1 /\ pc' = "fetch"
             ELSE ui' = 1 /\ pc' = "rename"
          /\ err' = err
    /\ UNCHANGED <<extractVars, poolVars,
                   script, chainVars, libVars>>

RECURSIVE ApplyRenames(_, _)
ApplyRenames(files, rs) ==
    IF rs = <<>> THEN files
    ELSE LET r == Head(rs)
             moved == {IF f.dir = r[1] THEN File(r[2], f.name) ELSE f :
                       f \in files}
         IN ApplyRenames(moved, Tail(rs))

\* The Path.rename calls after the loop, then endf_path = Path.cwd().  A
\* source that holds no evaluation file may not exist at all: the rename
\* then raises.
ChainRename ==
    /\ script \in ChainScripts
    /\ pc = "rename"
    /\ \/ /\ \E i \in 1..Len(Renames(script)) :
                InDir(fs, Renames(script)[i][1]) = {}
          /\ Raise("FileNotFoundError")
          /\ UNCHANGED <<fs, endf_path>>
       \/ /\ fs' = ApplyRenames(fs, Renames(script))
          /\ endf_path' = "cwd"
          /\ pc' = "glob"
          /\ err' = err
    /\ UNCHANGED <<extractVars, poolVars,
                   script, ui, dl_log, libdirs, decay_files, neutron_files,
                   nfy_files, from_endf, exported, jargs, jcat, ops,
                   libVars>>

\* The glob calls and the fixed paths: list(...glob(...)) for a globbed
\* category, the path itself (found or not) for a single file.
ChainGlob ==
    /\ script \in ChainScripts
    /\ pc = "glob"
    /\ decay_files' = Coll("list", InDir(fs, "decay"))
    /\ neutron_files' = Coll("list", InDir(fs, "neutrons"))
    /\ nfy_files' = Coll("list", InDir(fs, "nfy"))
    /\ pc' = IF script = Endf81 THEN "check" ELSE "load"
    /\ UNCHANGED <<extractVars, poolVars,
                   script, err, fs, ui, dl_log, endf_path, libdirs, from_endf,
                   exported, jargs, jcat, ops,
                   libVars>>

\* A faulty variant of the check below: the fission-yield list is left out.
Endf81CheckSkipsNfy ==
    /\ script = Endf81
    /\ pc = "check"
    /\ IF \E flist \in {decay_files, neutron_files} : ~Truthy(flist)
       THEN Raise("FileNotFoundError")
       ELSE pc' = "from_endf" /\ err' = err
    /\ UNCHANGED <<extractVars, poolVars,
                   script, fs, ui, dl_log, chainVars, libVars>>

\* generate_endf81_chain: "# check files exist"
Endf81Check ==
    /\ script = Endf81
    /\ pc = "check"
    /\ IF \E flist \in {decay_files, neutron_files, nfy_files} : ~Truthy(flist)
       THEN Raise("FileNotFoundError")
       ELSE pc' = "from_endf" /\ err' = err
    /\ UNCHANGED <<extractVars, poolVars,
                   script, fs, ui, dl_log, chainVars, libVars>>

\* generate_jeff33_chain, generate_jeff40_chain: fix_missing_tpid and
\* get_evaluations on the single files; opening a file that is not there
\* raises.  The globbed lists are not looked at.
JeffLoadEvaluations ==
    /\ script \in {Jeff33, Jeff40}
    /\ pc = "load"
    /\ IF \E c \in SingleFile(script) : InDir(fs, c) = {}
       THEN Raise("FileNotFoundError")
       ELSE pc' = "from_endf" /\ err' = err
    /\ UNCHANGED <<extractVars, poolVars,
                   script, fs, ui, dl_log, chainVars, libVars>>

\* Chain.from_endf(decay, nfy, neutron): the library builds the chain or
\* reports an error of its own.
ChainFromEndf ==
    /\ pc = "from_endf"
    /\ from_endf' = [called |-> TRUE, decay |-> decay_files,
                     nfy |-> nfy_files, neutron |-> neutron_files]
    /\ \/ pc' = "export" /\ err' = err
       \/ Raise("LibraryError")
    /\ UNCHANGED <<extractVars, poolVars,
                   script, fs, ui, dl_log, endf_path, libdirs, decay_files,
                   neutron_files, nfy_files, exported, jargs, jcat, ops,
                   libVars>>

\* chain.export_to_xml(chain_path)
ChainExport ==
    /\ script \in ChainScripts
    /\ pc = "export"
    /\ exported' = "chain_path"
    /\ pc' = "done"
    /\ UNCHANGED <<extractVars, poolVars,
                   script, err, fs, ui, dl_log, endf_path, libdirs,
                   decay_files, neutron_files, nfy_files, from_endf, jargs, jcat, ops,
                   libVars>>

----------------------------------------------------------------------------
\* generate_jendl_chain.py

JendlChain == "generate_jendl_chain"

library_name == "jendl"

\* The order in which main() handles the categories.
JcOrder == <<"neutron", "decay", "nfy">>

\* URLS: the archives of a category, the directory of its 'endf_files'
\* pattern (<dir>/*.dat), and the directories of its 'errata' patterns
\* ("*" for the pattern '*.dat', which rglob matches in every directory).
\* An archive is taken to unpack into the directory named after it.
JcURLS(cat) ==
    CASE cat = "neutron" ->
           [compressed_files |->
               <<"jendl5-n", "jendl5-n_upd1", "jendl5-n_upd6", "jendl5-n_upd7",
                 "jendl5-n_upd10", "jendl5-n_upd11", "jendl5-n_upd12",
                 "jendl5-n_upd14">>,
            endf_files |-> "jendl5-n",
            errata |-> <<"jendl5-n_upd1", "jendl-n_upd6", "*">>]
      [] cat = "decay" ->
           [compressed_files |-> <<"jendl5-dec_upd5", "jendl5-dec_upd15">>,
            endf_files |-> "jendl5-dec_upd5",
            errata |-> <<"jendl5-dec_upd15">>]
      [] cat = "nfy" ->
           [compressed_files |-> <<"jendl5-fpy_upd8">>,
            endf_files |-> "jendl5-fpy_upd8",
            errata |-> <<>>]

\* The files of endf_files_dir that rglob(pattern) yields.
RGlob(files, pattern) ==
    IF pattern = "*" THEN files ELSE InDir(files, pattern)

\* "for erratum in errata: for p in rglob(erratum): p.rename(parent / p.name)"
RECURSIVE MoveErrata(_, _, _)
MoveErrata(files, patterns, dest) ==
    IF patterns = <<>> THEN files
    ELSE LET hit == RGlob(files, Head(patterns))
         IN MoveErrata((files \ hit) \cup {File(dest, f.name) : f \in hit},
                       Tail(patterns), dest)

\* The files an errata pass renames.
RECURSIVE ErrataHits(_, _, _)
ErrataHits(files, patterns, dest) ==
    IF patterns = <<>> THEN {}
    ELSE RGlob(files, Head(patterns))
         \cup ErrataHits(MoveErrata(files, <<Head(patterns)>>, dest),
                         Tail(patterns), dest)

SetFiles(cat, c) ==
    /\ neutron_files' = IF cat = "neutron" THEN c ELSE neutron_files
    /\ decay_files' = IF cat = "decay" THEN c ELSE decay_files
    /\ nfy_files' = IF cat = "nfy" THEN c ELSE nfy_files

\* Where main() goes after category number i.
JcAfter(i) ==
    /\ jcat' = IF i < Len(JcOrder) THEN i + 1 ELSE i
    /\ pc' = IF i < Len(JcOrder) THEN "jc_select" ELSE "check"

\* A faulty variant of the selection below: the category is downloaded
\* whether or not paths were given for it.
JcSelectAlwaysDownload ==
    /\ script = JendlChain
    /\ pc = "jc_select"
    /\ SetFiles(JcOrder[jcat], Coll("list", jargs[JcOrder[jcat]]))
    /\ pc' = "jc_download"
    /\ jcat' = jcat
    /\ ui' = 1
    /\ UNCHANGED <<extractVars, poolVars,
                   script, err, fs, dl_log, endf_path, libdirs, from_endf,
                   exported, jargs, ops, libVars>>

\* "x_files = args.x; if not x_files:"
JcSelect ==
    /\ script = JendlChain
    /\ pc = "jc_select"
    /\ LET cat == JcOrder[jcat]
           given == Coll("list", jargs[cat])
       IN IF Truthy(given)
          THEN /\ SetFiles(cat, given)
               /\ JcAfter(jcat)
          ELSE /\ SetFiles(cat, given)
               /\ pc' = "jc_download"
               /\ jcat' = jcat
    /\ ui' = 1
    /\ UNCHANGED <<extractVars, poolVars,
                   script, err, fs, dl_log, endf_path, libdirs, from_endf,
                   exported, jargs, ops,
                   libVars>>

\* One turn of "for f in details['compressed_files']": download, extract.
JcDownloadExtract ==
    /\ script = JendlChain
    /\ pc = "jc_download"
    /\ LET cat == JcOrder[jcat]
           files == JcURLS(cat).compressed_files
           f == files[ui]
       IN \/ /\ Raise("DownloadError")
             /\ UNCHANGED <<fs, ui, dl_log, ops>>
          \/ /\ dl_log' = dl_log \cup {[particle |-> cat, file |-> f,
                                      checksum |-> "none"]}
             /\ \E content \in SUBSET {File(f, 1)} : fs' = fs \cup content
             /\ ops' = [ops EXCEPT ![cat] = @ \cup {"download", "extract"}]
             /\ IF ui < Len(files)
                THEN ui' = ui + 1 /\ pc' = "jc_download"
                ELSE ui' = 1 /\ pc' = "jc_errata"
             /\ err' = err
    /\ UNCHANGED <<extractVars, poolVars,
                   script, endf_path, libdirs, decay_files, neutron_files,
                   nfy_files, from_endf, exported, jargs, jcat, libVars>>

\* The errata renames (neutron and decay), then the glob that makes the
\* category's collection: a bare glob generator for neutron, list(rglob) for
\* decay and nfy.  A rename into a directory no archive created raises.
JcErrataGlob ==
    /\ script = JendlChain
    /\ pc = "jc_errata"
    /\ LET cat == JcOrder[jcat]
           d == JcURLS(cat)
           hits == ErrataHits(fs, d.errata, d.endf_files)
           moved == MoveErrata(fs, d.errata, d.endf_files)
           kind == IF cat = "neutron" THEN "generator" ELSE "list"
       IN \/ /\ hits # {}
             /\ InDir(fs, d.endf_files) = {}
             /\ Raise("FileNotFoundError")
             /\ UNCHANGED <<fs, ops, jcat, decay_files, neutron_files,
                            nfy_files>>
          \/ /\ fs' = moved
             /\ ops' = IF hits # {}
                       THEN [ops EXCEPT ![cat] = @ \cup {"rename"}]
                       ELSE ops
             /\ SetFiles(cat, Coll(kind, InDir(moved, d.endf_files)))
             /\ JcAfter(jcat)
             /\ err' = err
    /\ UNCHANGED <<extractVars, poolVars,
                   script, ui, dl_log, endf_path, libdirs, from_endf,
                   exported, jargs, libVars>>

\* "# check files exist"
JcCheck ==
    /\ script = JendlChain
    /\ pc = "check"
    /\ IF \E flist \in {decay_files, neutron_files, nfy_files} : ~Truthy(flist)
       THEN Raise("FileNotFoundError")
       ELSE pc' = "from_endf" /\ err' = err
    /\ UNCHANGED <<extractVars, poolVars,
                   script, fs, ui, dl_log, chainVars, libVars>>

\* f'chain_{library_name}{args.release}.xml'
DefaultDestination(rel) == "chain_" \o library_name \o rel \o ".xml"

\* "if args.destination is None: ..." and chain.export_to_xml
JcExport ==
    /\ script = JendlChain
    /\ pc = "export"
    /\ LET destination == IF jargs.destination = "None"
                          THEN DefaultDestination(jargs.release)
                          ELSE jargs.destination
       IN /\ jargs' = [jargs EXCEPT !.destination = destination]
          /\ exported' = destination
    /\ pc' = "done"
    /\ UNCHANGED <<extractVars, poolVars,
                   script, err, fs, ui, dl_log, endf_path, libdirs,
                   decay_files, neutron_files, nfy_files, from_endf, jcat, ops,
                   libVars>>

----------------------------------------------------------------------------
\* generate_endf.py and generate_jendl.py: the command line

GenEndf == "generate_endf"
GenJendl == "generate_jendl"
LibScripts == {GenEndf, GenJendl}

OnOffFlags == {"--download", "--no-download", "--extract", "--no-extract",
               "--cleanup", "--no-cleanup"}

\* A faulty variant of the defaults below: store_true's own default, as the
\* parser has it without the set_defaults call.
store_true_defaults ==
    [download |-> FALSE, extract |-> FALSE, cleanup |-> FALSE]

\* parser.set_defaults(download=True, extract=True, cleanup=False)
set_defaults == [download |-> TRUE, extract |-> TRUE, cleanup |-> FALSE]

\* The store_true / store_false action of one flag.
StoreFlag(a, flag) ==
    CASE flag = "--download" -> [a EXCEPT !.download = TRUE]
      [] flag = "--no-download" -> [a EXCEPT !.download = FALSE]
      [] flag = "--extract" -> [a EXCEPT !.extract = TRUE]
      [] flag = "--no-extract" -> [a EXCEPT !.extract = FALSE]
      [] flag = "--cleanup" -> [a EXCEPT !.cleanup = TRUE]
      [] flag = "--no-cleanup" -> [a EXCEPT !.cleanup = FALSE]

\* parser.parse_args() on the on/off flags: the defaults, then each flag of
\* the command line in turn.
RECURSIVE parse_args(_, _)
parse_args(a, argv) ==
    IF argv = <<>> THEN a
    ELSE parse_args(StoreFlag(a, Head(argv)), Tail(argv))

SeqsUpTo(S, n) == UNION {[1..k -> S] : k \in 0..n}

\* choices= of --release and of --particles
ReleaseChoices(s) == IF s = GenEndf THEN {"vii.1", "viii.0", "viii.1"}
                     ELSE {"5"}

ParticleChoices(s) == IF s = GenEndf
                      THEN {"neutron", "thermal", "photon", "wmp"}
                      ELSE {"neutron", "thermal", "photon"}

\* default= of --particles
DefaultParticles == <<"neutron", "thermal", "photon">>

----------------------------------------------------------------------------
\* release_details

\* generate_endf: the releases and particles that have a table entry.
EndfEntries ==
    {<<"vii.1", "neutron">>, <<"vii.1", "thermal">>, <<"vii.1", "photon">>,
     <<"vii.1", "wmp">>,
     <<"viii.0", "neutron">>, <<"viii.0", "thermal">>, <<"viii.0", "photon">>,
     <<"viii.1", "neutron">>, <<"viii.1", "thermal">>, <<"viii.1", "photon">>}

\* generate_endf: 'compressed_files' (by base name, with the kind of file the
\* extraction sees), 'checksums' (<<>> with has_checksums FALSE when the
\* entry has no such key) and 'file_type' of an entry.
EndfDetails(r, p) ==
    CASE r = "vii.1" /\ p = "neutron" ->
           [compressed_files |-> <<[name |-> "ENDF-B-VII.1-neutrons.zip", kind |-> "zip"]>>,
            has_checksums |-> TRUE,
            checksums |-> <<"e5d7f441fc4c92893322c24d1725e29c">>,
            file_type |-> "endf"]
      [] r = "vii.1" /\ p = "thermal" ->
           [compressed_files |-> <<[name |-> "ENDF-B-VII.1-thermal_scatt.zip", kind |-> "zip"]>>,
            has_checksums |-> TRUE,
            checksums |-> <<"fe590109dde63b2ec5dc228c7b8cab02">>,
            file_type |-> "endf"]
      [] r = "vii.1" /\ p = "photon" ->
           [compressed_files |-> <<[name |-> "ENDF-B-VII.1-photoat.zip", kind |-> "zip"],
                                   [name |-> "ENDF-B-VII.1-atomic_relax.zip", kind |-> "zip"]>>,
            has_checksums |-> TRUE,
            checksums |-> <<"5192f94e61f0b385cf536f448ffab4a4",
                            "fddb6035e7f2b6931e51a58fc754bd10">>,
            file_type |-> "endf"]
      [] r = "vii.1" /\ p = "wmp" ->
           [compressed_files |-> <<[name |-> "WMP_Library_v1.1.tar.gz", kind |-> "tar.gz"]>>,
            has_checksums |-> FALSE,
            checksums |-> <<>>,
            file_type |-> "wmp"]
      [] r = "viii.0" /\ p = "neutron" ->
           [compressed_files |-> <<[name |-> "ENDF-B-VIII.0_neutrons.zip", kind |-> "zip"],
                                   [name |-> "n-005_B_010.endf", kind |-> "plain"]>>,
            has_checksums |-> TRUE,
            checksums |-> <<"90c1b1a6653a148f17cbf3c5d1171859",
                            "eaf71eb22258f759abc205a129d8715a">>,
            file_type |-> "endf"]
      [] r = "viii.0" /\ p = "thermal" ->
           [compressed_files |-> <<[name |-> "ENDF-B-VIII.0_thermal_scatt.zip", kind |-> "zip"]>>,
            has_checksums |-> TRUE,
            checksums |-> <<"ecd503d3f8214f703e95e17cc947062c">>,
            file_type |-> "endf"]
      [] r = "viii.0" /\ p = "photon" ->
           [compressed_files |-> <<[name |-> "ENDF-B-VIII.0_photoat.zip", kind |-> "zip"],
                                   [name |-> "atomic_relax.tar.gz", kind |-> "tar.gz"]>>,
            has_checksums |-> TRUE,
            checksums |-> <<"d49f5b54be278862e1ce742ccd94f5c0",
                            "805f877c59ad22dcf57a0446d266ceea">>,
            file_type |-> "endf"]
      [] r = "viii.1" /\ p = "neutron" ->
           [compressed_files |-> <<[name |-> "neutrons-version.VIII.1.tar.gz", kind |-> "tar.gz"]>>,
            has_checksums |-> TRUE,
            checksums |-> <<"dc622c0f1c3c4477433e698266e0fc80">>,
            file_type |-> "endf"]
      [] r = "viii.1" /\ p = "thermal" ->
           [compressed_files |-> <<[name |-> "thermal_scatt-version.VIII.1.tar.gz", kind |-> "tar.gz"]>>,
            has_checksums |-> TRUE,
            checksums |-> <<"f7bcae02b2da577e28a3a083e07a3a3a">>,
            file_type |-> "endf"]
      [] r = "viii.1" /\ p = "photon" ->
           [compressed_files |-> <<[name |-> "photoat-version.VIII.1.tar.gz", kind |-> "tar.gz"],
                                   [name |-> "atomic_relax-version.VIII.1.tar.gz", kind |-> "tar.gz"]>>,
            has_checksums |-> TRUE,
            checksums |-> <<"6d5f4830f6290d6c618803a8391ba0cf",
                            "70e9ca0c481236499b7a3e0a490f4ef2">>,
            file_type |-> "endf"]

\* generate_jendl: release '5'.  No entry has 'checksums'; 'endf_dir' is ""
\* and 'pattern_errata' empty where the entry has no such key.
JendlDetails(p) ==
    CASE p = "neutron" ->
           [compressed_files |->
               <<[name |-> "jendl5-n.tar.gz", kind |-> "tar.gz"],
                 [name |-> "jendl5-n_upd1.tar.gz", kind |-> "tar.gz"],
                 [name |-> "jendl5-n_upd6.tar.gz", kind |-> "tar.gz"],
                 [name |-> "jendl5-n_upd7.tar.gz", kind |-> "tar.gz"],
                 [name |-> "jendl5-n_upd10.tar.gz", kind |-> "tar.gz"],
                 [name |-> "jendl5-n_upd11.tar.gz", kind |-> "tar.gz"],
                 [name |-> "jendl5-n_upd12.tar.gz", kind |-> "tar.gz"],
                 [name |-> "jendl5-n_upd14.tar.gz", kind |-> "tar.gz"]>>,
            has_checksums |-> FALSE, checksums |-> <<>>, file_type |-> "endf"]
      [] p = "thermal" ->
           [compressed_files |->
               <<[name |-> "jendl5-tsl.tar.gz", kind |-> "tar.gz"],
                 [name |-> "jendl5-tsl_upd16.tar.gz", kind |-> "tar.gz"]>>,
            has_checksums |-> FALSE, checksums |-> <<>>, file_type |-> "endf"]
      [] p = "photon" ->
           [compressed_files |->
               <<[name |-> "jendl5-pa.tar.gz", kind |-> "tar.gz"],
                 [name |-> "jendl5-ar.tar.gz", kind |-> "tar.gz"]>>,
            has_checksums |-> FALSE, checksums |-> <<>>, file_type |-> "endf"]

\* release_details[args.release][particle] raises KeyError without an entry.
HasEntry(s, r, p) == s = GenJendl \/ <<r, p>> \in EndfEntries

Details(s, r, p) == IF s = GenEndf THEN EndfDetails(r, p) ELSE JendlDetails(p)

\* Every archive of release r, as the download directory of an earlier run
\* holds them.
AllArchives(s, r) ==
    UNION {{[particle |-> p, file |-> Details(s, r, p).compressed_files[i].name] :
               i \in 1..Len(Details(s, r, p).compressed_files)} :
           p \in {q \in ParticleChoices(s) : HasEntry(s, r, q)}}

----------------------------------------------------------------------------
\* generate_endf.py and generate_jendl.py: main()

\* The particle lists --particles can give (nargs='+'), and the default.
\* The sections of main() that hand their evaluations to a Pool.
PoolParticles == {"neutron", "thermal"}

ParticleLists(s) ==
    {DefaultParticles}
    \cup {ps \in SeqsUpTo(ParticleChoices(s), MaxParticles) : ps # <<>>}

Selected == {particles[i] : i \in 1..Len(particles)}

\* parser.parse_args(): the on/off flags, --particles.
LibParseArgs ==
    /\ script \in LibScripts
    /\ pc = "start"
    /\ \E argv \in SeqsUpTo(OnOffFlags, MaxArgs) :
          /\ args' = parse_args(set_defaults, argv)
          /\ noflags' = (argv = <<>>)
    /\ \E ps \in ParticleLists(script) : particles' = ps
    /\ pc' = "download"
    /\ UNCHANGED <<extractVars, poolVars,
                   script, err, fs, ui, dl_log, chainVars, release, pidx,
                   dl_exists, dl_dir, extracted, rmtree_called, processed,
                   registered>>

\* utils.download(url, output_path=download_path / particle): on success the
\* file is in the download directory under its base name.
Downloaded(dir, p, f) == dir \cup {[particle |-> p, file |-> f]}

\* utils.extract(archive, extraction_dir): the archive stays where it is.
ArchivesAfterExtract(dir) == dir

\* The end of one turn of "for particle ...: for f in compressed_files".
LibAdvance(nfiles, after) ==
    IF ui < nfiles THEN ui' = ui + 1 /\ pidx' = pidx /\ pc' = pc
    ELSE IF pidx < Len(particles) THEN ui' = 1 /\ pidx' = pidx + 1 /\ pc' = pc
    ELSE ui' = 1 /\ pidx' = 1 /\ pc' = after

\* A faulty variant of the lookup below: the first checksum for every file.
ChecksumFirst(details, i) == details.checksums[1]

\* details['checksums'][i]
ChecksumFor(details, i) == details.checksums[i]

\* generate_endf: "if args.download:", one turn of the download loops.
\* download() raises, or leaves the file in download_path / particle.
EndfDownload ==
    /\ script = GenEndf
    /\ pc = "download"
    /\ IF ~args.download
       THEN /\ pc' = "extract"
            /\ UNCHANGED <<err, ui, pidx, dl_log, dl_exists, dl_dir>>
       ELSE LET p == particles[pidx] IN
            IF ~HasEntry(script, release, p)
            THEN /\ Raise("KeyError")
                 /\ UNCHANGED <<ui, pidx, dl_log, dl_exists, dl_dir>>
            ELSE LET d == Details(script, release, p)
                     f == d.compressed_files[ui]
                 IN IF d.has_checksums /\ ui > Len(d.checksums)
                    THEN /\ Raise("IndexError")
                         /\ UNCHANGED <<ui, pidx, dl_log, dl_exists, dl_dir>>
                    ELSE \/ /\ Raise("DownloadError")
                            /\ UNCHANGED <<ui, pidx, dl_log, dl_exists, dl_dir>>
                         \/ /\ dl_log' = dl_log \cup
                                  {[particle |-> p, file |-> f.name,
                                    checksum |-> IF d.has_checksums
                                                 THEN ChecksumFor(d, ui)
                                                 ELSE "none"]}
                            /\ dl_dir' = Downloaded(dl_dir, p, f.name)
                            /\ dl_exists' = TRUE
                            /\ LibAdvance(Len(d.compressed_files), "extract")
                            /\ err' = err
    /\ UNCHANGED <<extractVars, poolVars,
                   script, fs, chainVars, args, noflags, release, particles,
                   extracted, rmtree_called, processed, registered>>

\* generate_jendl: "if args.download:", one turn of the download loops.
JendlDownload ==
    /\ script = GenJendl
    /\ pc = "download"
    /\ IF ~args.download
       THEN /\ pc' = "extract"
            /\ UNCHANGED <<err, ui, pidx, dl_log, dl_exists, dl_dir>>
       ELSE LET p == particles[pidx]
                d == Details(script, release, p)
                f == d.compressed_files[ui]
            IN \/ /\ Raise("DownloadError")
                  /\ UNCHANGED <<ui, pidx, dl_log, dl_exists, dl_dir>>
               \/ /\ dl_log' = dl_log \cup
                        {[particle |-> p, file |-> f.name, checksum |-> "none"]}
                  /\ dl_dir' = Downloaded(dl_dir, p, f.name)
                  /\ dl_exists' = TRUE
                  /\ LibAdvance(Len(d.compressed_files), "extract")
                  /\ err' = err
    /\ UNCHANGED <<extractVars, poolVars,
                   script, fs, chainVars, args, noflags, release, particles,
                   extracted, rmtree_called, processed, registered>>

\* What the extraction of one archive leaves: generate_endf flattens it into
\* the particle's directory (the destination for wmp), generate_jendl keeps
\* the archive's own directory.
Extracted(s, p, d, f) ==
    [root |-> IF d.file_type = "wmp" THEN "destination" ELSE "endf",
     particle |-> p,
     dir |-> IF s = GenEndf THEN "" ELSE f.name,
     origin |-> f.name]

\* The base name that is both in the neutron zip of release viii.0 and among
\* its 'compressed_files'.
ErrataName == "n-005_B_010.endf"

\* The members an archive can hold: a path of components and the kind of the
\* entry.  zipfile lists a directory entry as 'sub/'; for tarfile a directory
\* entry is a member that is not a regular file.
Members ==
    {[path |-> <<ErrataName>>, kind |-> "file"],
     [path |-> <<"sub", ErrataName>>, kind |-> "file"],
     [path |-> <<"sub">>, kind |-> "dir"]}

\* Path(member).name: the last component; a trailing '/' does not count, so
\* the name is empty only for a path without components.
PathName(path) == IF path = <<>> THEN "" ELSE path[Len(path)]

SamePlace(a, b) ==
    a.root = b.root /\ a.particle = b.particle /\ a.path = b.path

\* A faulty variant of the write below: a file already there is kept.
WriteIfAbsent(dir, e) ==
    IF \E x \in dir : SamePlace(x, e) THEN dir ELSE dir \cup {e}

\* open(target, "wb"), tgz.extract and copy: the file at the target path is
\* replaced.
Write(dir, e) == {x \in dir : ~SamePlace(x, e)} \cup {e}

\* The member loops of one archive, from member i on.  A zip member is
\* skipped when Path(member).name is empty, a tar member unless isreg(); the
\* others are written to extraction_dir / Path(member).name.
RECURSIVE ExtractMembers(_, _, _, _, _, _)
ExtractMembers(dir, root, p, f, ms, i) ==
    IF i > Len(ms) THEN dir
    ELSE LET filename == PathName(ms[i].path)
             skip == IF f.kind = "zip" THEN filename = ""
                     ELSE ms[i].kind # "file"
             e == [root |-> root, particle |-> p, path |-> <<filename>>,
                   origin |-> f.name, member |-> i]
         IN ExtractMembers(IF skip THEN dir ELSE Write(dir, e),
                           root, p, f, ms, i + 1)

\* One turn of "for f in compressed_files": a zip, a tar.gz, or a file that
\* is not compressed and is copied under its own name.
ExtractFile(dir, root, p, f, ms) ==
    IF f.kind = "plain"
    THEN Write(dir, [root |-> root, particle |-> p, path |-> <<f.name>>,
                     origin |-> f.name, member |-> 0])
    ELSE ExtractMembers(dir, root, p, f, ms, 1)

\* generate_endf: "if args.extract:", one turn of the extraction loops.
\* Opening an archive that is not in the download directory raises.
EndfExtract ==
    /\ script = GenEndf
    /\ pc = "extract"
    /\ IF ~args.extract
       THEN /\ pc' = "mkdirs"
            /\ UNCHANGED <<err, ui, pidx, extracted, xdir>>
       ELSE LET p == particles[pidx] IN
            IF ~HasEntry(script, release, p)
            THEN /\ Raise("KeyError")
                 /\ UNCHANGED <<ui, pidx, extracted, xdir>>
            ELSE LET d == Details(script, release, p)
                     f == d.compressed_files[ui]
                 IN IF [particle |-> p, file |-> f.name] \notin dl_dir
                    THEN /\ Raise("FileNotFoundError")
                         /\ UNCHANGED <<ui, pidx, extracted, xdir>>
                    ELSE /\ extracted' = extracted \cup
                                            {Extracted(script, p, d, f)}
                         /\ xdir' = ExtractFile(
                                xdir, Extracted(script, p, d, f).root, p, f,
                                members)
                         /\ LibAdvance(Len(d.compressed_files), "cleanup")
                         /\ err' = err
    /\ UNCHANGED <<members, poolVars,
                   script, fs, dl_log, chainVars, args, noflags, release,
                   particles, dl_exists, dl_dir, rmtree_called, processed,
                   registered>>

\* generate_jendl: "if args.extract:", one turn of the extraction loops.
JendlExtract ==
    /\ script = GenJendl
    /\ pc = "extract"
    /\ IF ~args.extract
       THEN /\ pc' = "errata"
            /\ UNCHANGED <<err, ui, pidx, extracted>>
       ELSE LET p == particles[pidx]
                d == Details(script, release, p)
                f == d.compressed_files[ui]
            IN IF [particle |-> p, file |-> f.name] \notin dl_dir
               THEN /\ Raise("FileNotFoundError")
                    /\ UNCHANGED <<ui, pidx, extracted>>
               ELSE /\ extracted' = extracted \cup
                                       {Extracted(script, p, d, f)}
                    /\ LibAdvance(Len(d.compressed_files), "cleanup")
                    /\ err' = err
    /\ dl_dir' = ArchivesAfterExtract(dl_dir)
    /\ UNCHANGED <<extractVars, poolVars,
                   script, fs, dl_log, chainVars, args, noflags, release,
                   particles, dl_exists, rmtree_called, processed,
                   registered>>

\* A faulty variant of the cleanup below: args.cleanup is not consulted.
LibCleanupUnguarded ==
    /\ script \in LibScripts
    /\ pc = "cleanup"
    /\ IF dl_exists
       THEN /\ dl_dir' = {}
            /\ dl_exists' = FALSE
            /\ rmtree_called' = TRUE
       ELSE UNCHANGED <<dl_dir, dl_exists, rmtree_called>>
    /\ pc' = IF script = GenJendl THEN "errata" ELSE "mkdirs"
    /\ UNCHANGED <<extractVars, poolVars,
                   script, err, fs, ui, dl_log, chainVars, args, noflags,
                   release, particles, pidx, extracted, processed, registered>>

\* "if args.cleanup and download_path.exists(): rmtree(download_path)", the
\* last statement of the "if args.extract:" block of both scripts.
LibCleanup ==
    /\ script \in LibScripts
    /\ pc = "cleanup"
    /\ IF args.cleanup /\ dl_exists
       THEN /\ dl_dir' = {}
            /\ dl_exists' = FALSE
            /\ rmtree_called' = TRUE
       ELSE UNCHANGED <<dl_dir, dl_exists, rmtree_called>>
    /\ pc' = IF script = GenJendl THEN "errata" ELSE "mkdirs"
    /\ UNCHANGED <<extractVars, poolVars,
                   script, err, fs, ui, dl_log, chainVars, args, noflags,
                   release, particles, pidx, extracted, processed, registered>>

\* generate_jendl: 'endf_dir' of the entries that have 'pattern_errata'.
ErrataDir(p) ==
    CASE p = "neutron" -> "jendl5-n.tar.gz"
      [] p = "thermal" -> "jendl5-tsl.tar.gz"
      [] OTHER -> ""

\* generate_jendl, "HANDLE ERRATA FILES": the last pattern of each
\* 'pattern_errata' is '*.dat', so every extracted file of a selected
\* neutron or thermal particle ends in the particle's 'endf_dir'.
JendlErrata ==
    /\ script = GenJendl
    /\ pc = "errata"
    /\ extracted' = {IF e.particle \in Selected /\ ErrataDir(e.particle) # ""
                     THEN [e EXCEPT !.dir = ErrataDir(e.particle)]
                     ELSE e : e \in extracted}
    /\ pc' = "mkdirs"
    /\ UNCHANGED <<extractVars, poolVars,
                   script, err, fs, ui, dl_log, chainVars, args, noflags,
                   release, particles, pidx, dl_exists, dl_dir, rmtree_called,
                   processed, registered>>

\* "for particle in args.particles: particle_destination.mkdir(...)" and
\* library = openmc.data.DataLibrary()
LibMakeDirs ==
    /\ script \in LibScripts
    /\ pc = "mkdirs"
    /\ pc' = "neutron"
    /\ UNCHANGED <<extractVars, poolVars,
                   script, err, fs, ui, dl_log, chainVars, libVars>>

\* The photon section: skipped when photon is not selected; otherwise
\* IncidentPhoton.from_endf, export_to_hdf5 and register_file run in main()
\* itself, where an error of the library ends the run.
LibProcessPhoton ==
    /\ script \in LibScripts
    /\ pc = "photon"
    /\ IF "photon" \in Selected
       THEN \/ /\ processed' = processed \cup {"photon"}
               /\ registered' = Append(registered, "photon")
               /\ pc' = IF script = GenEndf THEN "wmp" ELSE "export"
               /\ err' = err
            \/ /\ Raise("LibraryError")
               /\ UNCHANGED <<processed, registered>>
       ELSE /\ pc' = IF script = GenEndf THEN "wmp" ELSE "export"
            /\ UNCHANGED <<err, processed, registered>>
    /\ UNCHANGED <<extractVars, poolVars,
                   script, fs, ui, dl_log, chainVars, args, noflags, release,
                   particles, pidx, dl_exists, dl_dir, extracted,
                   rmtree_called>>

\* generate_endf, "INCIDENT WMP NEUTRON DATA": registers the .h5 files under
\* destination / 'wmp'; the release table is not consulted.
EndfRegisterWmp ==
    /\ script = GenEndf
    /\ pc = "wmp"
    /\ registered' = IF "wmp" \in Selected THEN Append(registered, "wmp")
                     ELSE registered
    /\ pc' = "export"
    /\ UNCHANGED <<extractVars, poolVars,
                   script, err, fs, ui, dl_log, chainVars, args, noflags,
                   release, particles, pidx, dl_exists, dl_dir, extracted,
                   rmtree_called, processed>>

\* library.export_to_xml(args.destination / 'cross_sections.xml')
LibExport ==
    /\ script \in LibScripts
    /\ pc = "export"
    /\ exported' = "cross_sections.xml"
    /\ pc' = "done"
    /\ UNCHANGED <<extractVars, poolVars,
                   script, err, fs, ui, dl_log, endf_path, libdirs,
                   decay_files, neutron_files, nfy_files, from_endf, jargs,
                   jcat, ops, libVars>>

----------------------------------------------------------------------------
\* generate_endf.py and generate_jendl.py: the neutron and thermal sections

\* The evaluation files a section can find, numbered in the order of their
\* nuclides; evaluation 1 of the neutron sublibrary is n-000_n_001.endf.
Evaluations == 1..MaxTasks

FreeNeutron == 1

\* (Z, A, m) of the nuclide of each neutron evaluation, as openmc.data.zam
\* returns it for the stem of the .h5 file.
zam(k) ==
    CASE k = 1 -> <<0, 1, 0>>
      [] k = 2 -> <<1, 1, 0>>
      [] k = 3 -> <<95, 242, 0>>
      [] k = 4 -> <<95, 242, 1>>
      [] OTHER -> <<95 + k, 242, 0>>

\* The .h5 file a worker writes for evaluation k of section p: a nuclide
\* name for a neutron evaluation, a name starting with 'c_' for a thermal one.
H5(p, k) == [particle |-> p, eval |-> k]

\* sort_key(path): (1000, path) for a name starting with 'c_', else
\* zam(path.stem).
sort_key(f) == IF f.particle = "thermal" THEN <<1000, f.eval>> ELSE zam(f.eval)

\* a < b for two tuples of Python.
RECURSIVE TupleLess(_, _)
TupleLess(a, b) ==
    IF b = <<>> THEN FALSE
    ELSE IF a = <<>> THEN TRUE
    ELSE IF Head(a) # Head(b) THEN Head(a) < Head(b)
    ELSE TupleLess(Tail(a), Tail(b))

\* One step of sorted(): f goes behind every element whose key is not
\* greater than its own.
RECURSIVE Insert(_, _)
Insert(s, f) ==
    IF s = <<>> THEN <<f>>
    ELSE IF TupleLess(sort_key(f), sort_key(Head(s))) THEN <<f>> \o s
    ELSE <<Head(s)>> \o Insert(Tail(s), f)

\* A faulty variant of the sort below: the files as glob yields them.
unsorted(listing) == listing

\* sorted(listing, key=sort_key)
RECURSIVE sorted(_)
sorted(listing) ==
    IF listing = <<>> THEN <<>>
    ELSE Insert(sorted(SubSeq(listing, 1, Len(listing) - 1)),
                listing[Len(listing)])

\* The orders in which glob('*.h5') can yield the files of a directory.
Listings(S) ==
    {l \in [1..Cardinality(S) -> S] :
        \A i, j \in 1..Cardinality(S) : i # j => l[i] # l[j]}

\* generate_jendl: 'sab_files' of the thermal entry.  A thermal file name is
\* split at the words Liquid and Solid.
JendlSabFiles ==
    <<[neutron |-> "n_001-H-001.dat",
       thermal |-> <<"tsl_HinC5O2H8.dat">>],
      [neutron |-> "n_001-H-001.dat",
       thermal |-> <<"tsl_HinCH2.dat">>],
      [neutron |-> "n_001-H-001.dat",
       thermal |-> <<"tsl_HinH2O.dat">>],
      [neutron |-> "n_001-H-001.dat",
       thermal |-> <<"tsl_HinIceIh.dat">>],
      [neutron |-> "n_001-H-001.dat",
       thermal |-> <<"tsl_Hin", "Liquid", "Benzene.dat">>],
      [neutron |-> "n_001-H-001.dat",
       thermal |-> <<"tsl_Hin", "Liquid", "Ethanol.dat">>],
      [neutron |-> "n_001-H-001.dat",
       thermal |-> <<"tsl_Hin", "Liquid", "Mesitylene.dat">>],
      [neutron |-> "n_001-H-001.dat",
       thermal |-> <<"tsl_Hin", "Liquid", "Methane.dat">>],
      [neutron |-> "n_001-H-001.dat",
       thermal |-> <<"tsl_Hin", "Liquid", "M-Xylene.dat">>],
      [neutron |-> "n_001-H-001.dat",
       thermal |-> <<"tsl_Hin", "Liquid", "Toluene.dat">>],
      [neutron |-> "n_001-H-001.dat",
       thermal |-> <<"tsl_Hin", "Liquid", "Triphenylmethane.dat">>],
      [neutron |-> "n_001-H-001.dat",
       thermal |-> <<"tsl_HinOrthoH.dat">>],
      [neutron |-> "n_001-H-001.dat",
       thermal |-> <<"tsl_HinParaH.dat">>],
      [neutron |-> "n_001-H-001.dat",
       thermal |-> <<"tsl_Hin", "Solid", "Benzene.dat">>],
      [neutron |-> "n_001-H-001.dat",
       thermal |-> <<"tsl_Hin", "Solid", "Ethanol.dat">>],
      [neutron |-> "n_001-H-001.dat",
       thermal |-> <<"tsl_Hin", "Solid", "Mesitylene.dat">>],
      [neutron |-> "n_001-H-001.dat",
       thermal |-> <<"tsl_Hin", "Solid", "Methane.dat">>],
      [neutron |-> "n_001-H-001.dat",
       thermal |-> <<"tsl_Hin", "Solid", "M-Xylene.dat">>],
      [neutron |-> "n_001-H-001.dat",
       thermal |-> <<"tsl_Hin", "Solid", "Toluene.dat">>],
      [neutron |-> "n_001-H-001.dat",
       thermal |-> <<"tsl_Hin", "Solid", "Triphenylmethane.dat">>],
      [neutron |-> "n_001-H-001.dat",
       thermal |-> <<"tsl_HinYH2.dat">>],
      [neutron |-> "n_001-H-001.dat",
       thermal |-> <<"tsl_HinZrH.dat">>],
      [neutron |-> "n_001-H-002.dat",
       thermal |-> <<"tsl_DinD2O.dat">>],
      [neutron |-> "n_001-H-002.dat",
       thermal |-> <<"tsl_DinOrthoD.dat">>],
      [neutron |-> "n_001-H-002.dat",
       thermal |-> <<"tsl_DinParaD.dat">>],
      [neutron |-> "n_004-Be-009.dat",
       thermal |-> <<"tsl_Be-metal.dat">>],
      [neutron |-> "n_004-Be-009.dat",
       thermal |-> <<"tsl_BeinBeO.dat">>],
      [neutron |-> "n_006-C-012.dat",
       thermal |-> <<"tsl_Cin", "Liquid", "Benzene.dat">>],
      [neutron |-> "n_006-C-012.dat",
       thermal |-> <<"tsl_Cin", "Liquid", "Ethanol.dat">>],
      [neutron |-> "n_006-C-012.dat",
       thermal |-> <<"tsl_Cin", "Liquid", "Mesitylene.dat">>],
      [neutron |-> "n_006-C-012.dat",
       thermal |-> <<"tsl_Cin", "Liquid", "Methane.dat">>],
      [neutron |-> "n_006-C-012.dat",
       thermal |-> <<"tsl_Cin", "Liquid", "M-Xylene.dat">>],
      [neutron |-> "n_006-C-012.dat",
       thermal |-> <<"tsl_Cin", "Liquid", "Toluene.dat">>],
      [neutron |-> "n_006-C-012.dat",
       thermal |-> <<"tsl_Cin", "Liquid", "Triphenylmethane.dat">>],
      [neutron |-> "n_006-C-012.dat",
       thermal |-> <<"tsl_CinSiC.dat">>],
      [neutron |-> "n_006-C-012.dat",
       thermal |-> <<"tsl_Cin", "Solid", "Benzene.dat">>],
      [neutron |-> "n_006-C-012.dat",
       thermal |-> <<"tsl_Cin", "Solid", "Ethanol.dat">>],
      [neutron |-> "n_006-C-012.dat",
       thermal |-> <<"tsl_Cin", "Solid", "Mesitylene.dat">>],
      [neutron |-> "n_006-C-012.dat",
       thermal |-> <<"tsl_Cin", "Solid", "Methane.dat">>],
      [neutron |-> "n_006-C-012.dat",
       thermal |-> <<"tsl_Cin", "Solid", "M-Xylene.dat">>],
      [neutron |-> "n_006-C-012.dat",
       thermal |-> <<"tsl_Cin", "Solid", "Toluene.dat">>],
      [neutron |-> "n_006-C-012.dat",
       thermal |-> <<"tsl_Cin", "Solid", "Triphenylmethane.dat">>],
      [neutron |-> "n_006-C-012.dat",
       thermal |-> <<"tsl_crystalline-graphite.dat">>],
      [neutron |-> "n_006-C-012.dat",
       thermal |-> <<"tsl_reactor-graphite-10P.dat">>],
      [neutron |-> "n_006-C-012.dat",
       thermal |-> <<"tsl_reactor-graphite-30P.dat">>],
      [neutron |-> "n_007-N-014.dat",
       thermal |-> <<"tsl_NinUN.dat">>],
      [neutron |-> "n_008-O-016.dat",
       thermal |-> <<"tsl_OinBeO.dat">>],
      [neutron |-> "n_008-O-016.dat",
       thermal |-> <<"tsl_OinD2O.dat">>],
      [neutron |-> "n_008-O-016.dat",
       thermal |-> <<"tsl_OinH2O.dat">>],
      [neutron |-> "n_008-O-016.dat",
       thermal |-> <<"tsl_OinIceIh.dat">>],
      [neutron |-> "n_008-O-016.dat",
       thermal |-> <<"tsl_Oin", "Liquid", "Ethanol.dat">>],
      [neutron |-> "n_008-O-016.dat",
       thermal |-> <<"tsl_Oin", "Solid", "Ethanol.dat">>],
      [neutron |-> "n_008-O-016.dat",
       thermal |-> <<"tsl_OinUO2.dat">>],
      [neutron |-> "n_013-Al-027.dat",
       thermal |-> <<"tsl_013_Al_027.dat">>],
      [neutron |-> "n_014-Si-028.dat",
       thermal |-> <<"tsl_SiinSiC.dat">>],
      [neutron |-> "n_014-Si-028.dat",
       thermal |-> <<"tsl_SiO2-alpha.dat">>],
      [neutron |-> "n_014-Si-028.dat",
       thermal |-> <<"tsl_SiO2-beta.dat">>],
      [neutron |-> "n_026-Fe-056.dat",
       thermal |-> <<"tsl_026_Fe_056.dat">>],
      [neutron |-> "n_039-Y-089.dat",
       thermal |-> <<"tsl_YinYH2.dat">>],
      [neutron |-> "n_040-Zr-090.dat",
       thermal |-> <<"tsl_ZrinZrH.dat">>],
      [neutron |-> "n_092-U-238.dat",
       thermal |-> <<"tsl_UinUN.dat">>],
      [neutron |-> "n_092-U-238.dat",
       thermal |-> <<"tsl_UinUO2.dat">>]>>

\* generate_jendl: the files to patch and the ZSYMAM each one gets.
update_thermal_list ==
    <<[file |-> <<"tsl_Cin", "Liquid", "Benzene.dat">>,
       zsymam |-> "c(c6h6)l"],
      [file |-> <<"tsl_Cin", "Liquid", "Ethanol.dat">>,
       zsymam |-> "c(c2h6o)l"],
      [file |-> <<"tsl_Cin", "Liquid", "M-Xylene.dat">>,
       zsymam |-> "c(m-c8h10)l"],
      [file |-> <<"tsl_Cin", "Liquid", "Mesitylene.dat">>,
       zsymam |-> "c(c9h12)l"],
      [file |-> <<"tsl_Cin", "Liquid", "Methane.dat">>,
       zsymam |-> "c(ch4)l"],
      [file |-> <<"tsl_Cin", "Liquid", "Toluene.dat">>,
       zsymam |-> "c(c7h8)l"],
      [file |-> <<"tsl_Cin", "Liquid", "Triphenylmethane.dat">>,
       zsymam |-> "c(c19h16)l"],
      [file |-> <<"tsl_Cin", "Solid", "Benzene.dat">>,
       zsymam |-> "c(c6h6)s"],
      [file |-> <<"tsl_Cin", "Solid", "Ethanol.dat">>,
       zsymam |-> "c(c2h6o)s"],
      [file |-> <<"tsl_Cin", "Solid", "M-Xylene.dat">>,
       zsymam |-> "c(m-c8h10)s"],
      [file |-> <<"tsl_Cin", "Solid", "Mesitylene.dat">>,
       zsymam |-> "c(c9h12)s"],
      [file |-> <<"tsl_Cin", "Solid", "Methane.dat">>,
       zsymam |-> "c(ch4)s"],
      [file |-> <<"tsl_Cin", "Solid", "Toluene.dat">>,
       zsymam |-> "c(c7h8)s"],
      [file |-> <<"tsl_Cin", "Solid", "Triphenylmethane.dat">>,
       zsymam |-> "c(c19h16)s"],
      [file |-> <<"tsl_Hin", "Liquid", "Benzene.dat">>,
       zsymam |-> "h(c6h6)l"],
      [file |-> <<"tsl_Hin", "Liquid", "Ethanol.dat">>,
       zsymam |-> "h(c2h6o)l"],
      [file |-> <<"tsl_Hin", "Liquid", "M-Xylene.dat">>,
       zsymam |-> "h(m-c8h10)l"],
      [file |-> <<"tsl_Hin", "Liquid", "Mesitylene.dat">>,
       zsymam |-> "h(c9h12)l"],
      [file |-> <<"tsl_Hin", "Liquid", "Methane.dat">>,
       zsymam |-> "h(ch4)l"],
      [file |-> <<"tsl_Hin", "Liquid", "Toluene.dat">>,
       zsymam |-> "h(c7h8)l"],
      [file |-> <<"tsl_Hin", "Liquid", "Triphenylmethane.dat">>,
       zsymam |-> "h(c19h16)l"],
      [file |-> <<"tsl_Hin", "Solid", "Benzene.dat">>,
       zsymam |-> "h(c6h6)s"],
      [file |-> <<"tsl_Hin", "Solid", "Ethanol.dat">>,
       zsymam |-> "h(c2h6o)s"],
      [file |-> <<"tsl_Hin", "Solid", "M-Xylene.dat">>,
       zsymam |-> "h(m-c8h10)s"],
      [file |-> <<"tsl_Hin", "Solid", "Mesitylene.dat">>,
       zsymam |-> "h(c9h12)s"],
      [file |-> <<"tsl_Hin", "Solid", "Methane.dat">>,
       zsymam |-> "h(ch4)s"],
      [file |-> <<"tsl_Hin", "Solid", "Toluene.dat">>,
       zsymam |-> "h(c7h8)s"],
      [file |-> <<"tsl_Hin", "Solid", "Triphenylmethane.dat">>,
       zsymam |-> "h(c19h16)s"],
      [file |-> <<"tsl_Oin", "Liquid", "Ethanol.dat">>,
       zsymam |-> "o(c2h6o)l"],
      [file |-> <<"tsl_Oin", "Solid", "Ethanol.dat">>,
       zsymam |-> "o(c2h6o)s"]>>

\* A faulty variant of the loop below: every file gets the first symbol.
UpdateZsymamFirstSymbol(list) ==
    [i \in 1..Len(list) |-> [file |-> list[i].file, zsymam |-> list[1].zsymam]]

\* "for filename, zsymam in update_thermal_list: update_zsymam(...)": the
\* calls made, in order.
UpdateZsymamCalls(list) ==
    [i \in 1..Len(list) |-> [file |-> list[i].file, zsymam |-> list[i].zsymam]]

SectionAfter(p) == IF p = "neutron" THEN "thermal" ELSE "photon"

\* generate_jendl, thermal section before its pool: the liquid and solid
\* evaluations are patched; update_zsymam can fail on a file.
JendlUpdateZsymam ==
    /\ script = GenJendl
    /\ pc = "thermal"
    /\ IF "thermal" \in Selected
       THEN \/ /\ zsymam' = UpdateZsymamCalls(update_thermal_list)
               /\ pc' = "thermal_pool"
               /\ err' = err
            \/ /\ Raise("OSError")
               /\ zsymam' = zsymam
       ELSE /\ pc' = "photon"
            /\ UNCHANGED <<err, zsymam>>
    /\ UNCHANGED <<extractVars, jobs, tasks, pool, h5, reg_calls,
                   script, fs, ui, dl_log, chainVars, libVars>>

\* "if particle in args.particles: with Pool() as pool:"
PoolOpen ==
    /\ script \in LibScripts
    /\ \E p \in PoolParticles :
          /\ pc = IF script = GenJendl /\ p = "thermal" THEN "thermal_pool"
                  ELSE p
          /\ IF p \in Selected
             THEN /\ pool' = [pool EXCEPT ![p] = "open"]
                  /\ pc' = p \o "_submit"
             ELSE /\ pool' = pool
                  /\ pc' = SectionAfter(p)
    /\ ui' = 1
    /\ UNCHANGED <<extractVars, jobs, tasks, h5, reg_calls, zsymam,
                   script, err, fs, dl_log, chainVars, libVars>>

\* One turn of the loop over the evaluation files: generate_endf skips
\* n-000_n_001.endf, every other file becomes a task of the pool.
PoolApplyAsync ==
    /\ script \in LibScripts
    /\ \E p \in PoolParticles :
          /\ pc = p \o "_submit"
          /\ IF ui <= Len(jobs)
             THEN /\ tasks' =
                        IF script = GenEndf /\ p = "neutron"
                           /\ jobs[ui] = FreeNeutron
                        THEN tasks
                        ELSE [tasks EXCEPT ![p] =
                                 Append(@, [eval |-> jobs[ui],
                                            state |-> "run"])]
                  /\ ui' = ui + 1
                  /\ pc' = pc
             ELSE /\ tasks' = tasks
                  /\ ui' = 1
                  /\ pc' = p \o "_wait"
    /\ UNCHANGED <<extractVars, jobs, pool, h5, reg_calls, zsymam,
                   script, err, fs, dl_log, chainVars, libVars>>

\* A worker of the pool ends a task: process_neutron / process_thermal has
\* written the .h5 file of the evaluation, or the library raised and the
\* error is kept in the task's AsyncResult.
PoolWorker ==
    /\ script \in LibScripts
    /\ \E p \in PoolParticles : \E i \in 1..Len(tasks[p]) :
          /\ pool[p] = "open"
          /\ tasks[p][i].state = "run"
          /\ \/ /\ tasks' = [tasks EXCEPT ![p][i].state = "ok"]
                /\ h5' = [h5 EXCEPT ![p] = @ \cup {H5(p, tasks[p][i].eval)}]
             \/ /\ tasks' = [tasks EXCEPT ![p][i].state = "failed"]
                /\ h5' = h5
    /\ UNCHANGED <<extractVars, jobs, pool, reg_calls, zsymam,
                   script, pc, err, fs, ui, dl_log, chainVars, libVars>>

\* A faulty variant of the loop below: main() goes on without waiting.
PoolNoWait ==
    /\ script \in LibScripts
    /\ \E p \in PoolParticles :
          /\ pc = p \o "_wait"
          /\ pc' = p \o "_exit"
    /\ UNCHANGED <<extractVars, poolVars,
                   script, err, fs, ui, dl_log, chainVars, libVars>>

\* "for r in results: r.wait()": blocks until the task has ended, and
\* returns whether it ended with a value or with an error.
PoolWait ==
    /\ script \in LibScripts
    /\ \E p \in PoolParticles :
          /\ pc = p \o "_wait"
          /\ IF ui <= Len(tasks[p])
             THEN /\ tasks[p][ui].state # "run"
                  /\ ui' = ui + 1
                  /\ pc' = pc
             ELSE /\ ui' = 1
                  /\ pc' = p \o "_exit"
    /\ UNCHANGED <<extractVars, poolVars,
                   script, err, fs, dl_log, chainVars, libVars>>

\* The end of the with block: Pool.__exit__ terminates the pool, which stops
\* the workers whatever they are doing.
PoolExit ==
    /\ script \in LibScripts
    /\ \E p \in PoolParticles :
          /\ pc = p \o "_exit"
          /\ pool' = [pool EXCEPT ![p] = "terminated"]
          /\ tasks' = [tasks EXCEPT ![p] =
                [i \in 1..Len(@) |->
                    IF @[i].state = "run"
                    THEN [@[i] EXCEPT !.state = "killed"] ELSE @[i]]]
          /\ pc' = p \o "_register"
    /\ UNCHANGED <<extractVars, jobs, h5, reg_calls, zsymam,
                   script, err, fs, ui, dl_log, chainVars, libVars>>

\* "for p in sorted(destination.glob('*.h5'), key=sort_key):
\*      library.register_file(p)"
PoolRegister ==
    /\ script \in LibScripts
    /\ \E p \in PoolParticles :
          /\ pc = p \o "_register"
          /\ \E listing \in Listings(h5[p]) :
                reg_calls' = reg_calls \o sorted(listing)
          /\ processed' = processed \cup {p}
          /\ registered' = Append(registered, p)
          /\ pc' = SectionAfter(p)
    /\ UNCHANGED <<extractVars, jobs, tasks, pool, h5, zsymam,
                   script, err, fs, ui, dl_log, chainVars, args, noflags,
                   release, particles, pidx, dl_exists, dl_dir, extracted,
                   rmtree_called>>

----------------------------------------------------------------------------
\* The runs

UserPaths == {File("user", n) : n \in 1..MaxPaths}

\* What an earlier run of generate_jendl_chain leaves in endf_files_dir.
JcLeftover == {File(JcURLS(c).endf_files, 1) : c \in {"neutron", "decay", "nfy"}}

NoArgs == [download |-> FALSE, extract |-> FALSE, cleanup |-> FALSE]

NoJargs == [neutron |-> {}, decay |-> {}, nfy |-> {}, destination |-> "None",
            release |-> "5"]

InitCommon ==
    /\ err = ""
    /\ ui = 1
    /\ dl_log = {}
    /\ decay_files = EmptyList
    /\ neutron_files = EmptyList
    /\ nfy_files = EmptyList
    /\ from_endf = NoCall
    /\ exported = ""
    /\ jcat = 1
    /\ ops = [c \in {"neutron", "decay", "nfy"} |-> {}]
    /\ args = NoArgs
    /\ noflags = FALSE
    /\ pidx = 1
    /\ rmtree_called = FALSE
    /\ processed = {}
    /\ registered = <<>>
    /\ xdir = {}
    /\ tasks = [p \in PoolParticles |-> <<>>]
    /\ pool = [p \in PoolParticles |-> "none"]
    /\ h5 = [p \in PoolParticles |-> {}]
    /\ reg_calls = <<>>
    /\ zsymam = <<>>

\* main(chain_path, endf_path) of the three chain scripts: endf_path given or
\* not, the three directories in cwd or not, and any files in them.
InitChain ==
    /\ script \in ChainScripts
    /\ pc = "start"
    /\ endf_path \in {"None", "given"}
    /\ libdirs \in BOOLEAN
    /\ IF endf_path = "given" \/ libdirs
       THEN fs \in SUBSET (UNION {Matches(script, d) : d \in Categories})
       ELSE fs = {}
    /\ jargs = NoJargs
    /\ release = ""
    /\ dl_exists = FALSE
    /\ dl_dir = {}
    /\ extracted = {}
    /\ members = <<>>
    /\ jobs = <<>>
    /\ particles = <<>>

\* generate_jendl_chain: the command line, and endf_files_dir empty or as an
\* earlier run left it.
InitJendlChain ==
    /\ script = JendlChain
    /\ pc = "jc_select"
    /\ endf_path = "None"
    /\ libdirs = FALSE
    /\ fs \in {{}, JcLeftover}
    /\ jargs \in [neutron : SUBSET UserPaths, decay : SUBSET UserPaths,
                  nfy : SUBSET UserPaths,
                  destination : {"None", "my_chain.xml"}, release : {"5"}]
    /\ release = ""
    /\ dl_exists = FALSE
    /\ dl_dir = {}
    /\ extracted = {}
    /\ members = <<>>
    /\ jobs = <<>>
    /\ particles = <<>>

\* What an earlier, complete run of a library script left extracted.
PriorExtracted(s, r) ==
    UNION {{LET e == Extracted(s, p, Details(s, r, p),
                               Details(s, r, p).compressed_files[i])
            IN IF s = GenJendl /\ ErrataDir(p) # ""
               THEN [e EXCEPT !.dir = ErrataDir(p)] ELSE e :
               i \in 1..Len(Details(s, r, p).compressed_files)} :
           p \in {q \in ParticleChoices(s) : HasEntry(s, r, q)}}

\* A section that finds one evaluation file, of the second nuclide.
OneEvaluation == <<2>>

\* An archive that holds one file, in a directory of its own.
OneFile == <<[path |-> <<"sub", ErrataName>>, kind |-> "file"]>>

\* A library script: the release, and the download and endf directories
\* absent or as an earlier run of the same release left them.  Every archive
\* holds one file and every pool section finds one evaluation.
InitLib ==
    /\ script \in LibScripts
    /\ pc = "start"
    /\ endf_path = "None"
    /\ libdirs = FALSE
    /\ fs = {}
    /\ jargs = NoJargs
    /\ release \in ReleaseChoices(script)
    /\ dl_exists \in BOOLEAN
    /\ dl_dir = IF dl_exists THEN AllArchives(script, release) ELSE {}
    /\ \E prior \in BOOLEAN :
          extracted = IF prior THEN PriorExtracted(script, release) ELSE {}
    /\ members = OneFile
    /\ jobs = OneEvaluation
    /\ particles = <<>>

Init == InitCommon /\ (InitChain \/ InitJendlChain \/ InitLib)

Next ==
    \/ ChainResolvePath
    \/ ChainFetch
    \/ ChainRename
    \/ ChainGlob
    \/ Endf81Check
    \/ JeffLoadEvaluations
    \/ ChainFromEndf
    \/ ChainExport
    \/ JcSelect
    \/ JcDownloadExtract
    \/ JcErrataGlob
    \/ JcCheck
    \/ JcExport
    \/ LibParseArgs
    \/ EndfDownload
    \/ JendlDownload
    \/ EndfExtract
    \/ JendlExtract
    \/ LibCleanup
    \/ JendlErrata
    \/ LibMakeDirs
    \/ PoolOpen
    \/ PoolApplyAsync
    \/ PoolWorker
    \/ PoolWait
    \/ PoolExit
    \/ PoolRegister
    \/ JendlUpdateZsymam
    \/ LibProcessPhoton
    \/ EndfRegisterWmp
    \/ LibExport

Spec == Init /\ [][Next]_vars

\* The download and extract phases of generate_endf.main, for every member
\* list the archives can hold.
MemberLists == SeqsUpTo(Members, MaxMembers)

InitExtract ==
    /\ InitCommon
    /\ script = GenEndf
    /\ pc = "start"
    /\ endf_path = "None"
    /\ libdirs = FALSE
    /\ fs = {}
    /\ jargs = NoJargs
    /\ release \in ReleaseChoices(script)
    /\ dl_exists \in BOOLEAN
    /\ dl_dir = IF dl_exists THEN AllArchives(script, release) ELSE {}
    /\ extracted = {}
    /\ members \in MemberLists
    /\ jobs = <<>>
    /\ particles = <<>>

NextExtract ==
    \/ LibParseArgs
    \/ EndfDownload
    \/ EndfExtract
    \/ LibCleanup

SpecExtract == InitExtract /\ [][NextExtract]_vars

\* The processing sections of both scripts, task by task, for every list of
\* evaluation files: main() from line 429 (240 in generate_jendl) on, in a
\* run with --no-download --no-extract over what an earlier run extracted.
JobLists ==
    {l \in SeqsUpTo(Evaluations, MaxTasks) :
        \A i, j \in 1..Len(l) : i # j => l[i] # l[j]}

InitPool ==
    /\ InitCommon
    /\ script \in LibScripts
    /\ pc = "mkdirs"
    /\ endf_path = "None"
    /\ libdirs = FALSE
    /\ fs = {}
    /\ jargs = NoJargs
    /\ release \in ReleaseChoices(script)
    /\ dl_exists = FALSE
    /\ dl_dir = {}
    /\ extracted = PriorExtracted(script, release)
    /\ members = OneFile
    /\ jobs \in JobLists
    /\ particles \in ParticleLists(script)

NextPool ==
    \/ LibMakeDirs
    \/ PoolOpen
    \/ PoolApplyAsync
    \/ PoolWorker
    \/ PoolWait
    \/ PoolExit
    \/ PoolRegister
    \/ JendlUpdateZsymam
    \/ LibProcessPhoton
    \/ EndfRegisterWmp
    \/ LibExport

SpecPool == InitPool /\ [][NextPool]_vars

----------------------------------------------------------------------------
\* Properties

\* C1: generate_endf81_chain: when the decay, neutron or fission-yield list
\* found under endf_path is empty, the check raises FileNotFoundError, and
\* Chain.from_endf is not called and no chain file is exported.
C1_CheckStep ==
    (script = Endf81 /\ pc = "check"
       /\ (\E d \in Categories : InDir(fs, d) = {}))
    => (pc' = "error" /\ err' = "FileNotFoundError"
          /\ ~from_endf'.called /\ exported' = "")

C1_Endf81MissingFilesFatal ==
    /\ [](script = Endf81 /\ (from_endf.called \/ exported # "")
            => \A d \in Categories : InDir(fs, d) # {})
    /\ [][C1_CheckStep]_vars

\* C1: a run on a given endf_path with decay files but no neutron file has
\* ended in FileNotFoundError.
C1_Witness ==
    /\ script = Endf81
    /\ endf_path = "given"
    /\ InDir(fs, "decay") # {}
    /\ InDir(fs, "neutrons") = {}
    /\ pc = "error"
    /\ err = "FileNotFoundError"

\* C2: generate_jendl_chain: whenever a collection holds no file at the
\* check, Chain.from_endf and export_to_xml are not called (on the command
\* line path and on the download path alike).
C2_JendlChainMissingFilesFatal ==
    script = JendlChain /\ (from_endf.called \/ exported # "")
        => /\ from_endf.decay.items # {}
           /\ from_endf.neutron.items # {}
           /\ from_endf.nfy.items # {}

\* C3: generate_jeff33_chain, generate_jeff40_chain: with no neutron file
\* (and, for JEFF-3.3, no decay file) under endf_path, Chain.from_endf is not
\* called.
C3_JeffMissingFilesFatal ==
    script \in {Jeff33, Jeff40} /\ from_endf.called
        => /\ from_endf.neutron.items # {}
           /\ script = Jeff33 => from_endf.decay.items # {}

\* C4: the library scripts call download() only with the download flag true
\* and extract only with the extract flag true; without flags the defaults
\* are download, extract, no cleanup; with both flags off the download and
\* extract phases create no file.
C4_Step ==
    script \in LibScripts
        => /\ extracted' # extracted => args.extract
           /\ dl_log' # dl_log => args.download
           /\ pc # "start" /\ ~args.download /\ ~args.extract
                => dl_dir' = dl_dir /\ extracted' = extracted

C4_DownloadExtractOnlyWhenFlagged ==
    /\ [](script \in LibScripts /\ noflags
            => args.download /\ args.extract /\ ~args.cleanup)
    /\ [][C4_Step]_vars

\* C4: a run without flags has downloaded and extracted, and has ended.
C4_Witness ==
    /\ script \in LibScripts
    /\ noflags
    /\ dl_log # {}
    /\ extracted # {}
    /\ pc = "done"

\* C5: a library script run with --cleanup that ends normally leaves no
\* download directory, whatever the download and extract flags.
C5_CleanupLeavesNoDownloadDir ==
    script \in LibScripts /\ pc = "done" /\ args.cleanup => ~dl_exists

\* C6: with --cleanup, the download directory is removed only after the
\* processing of the selected neutron, thermal and photon data is complete.
C6_CleanupAfterProcessing ==
    script \in LibScripts /\ rmtree_called
        => (Selected \cap {"neutron", "thermal", "photon"}) \subseteq processed

\* C7: with cleanup false no step of a library script removes the download
\* directory or an archive in it.
C7_Step ==
    script \in LibScripts /\ ~args.cleanup
        => /\ dl_dir \subseteq dl_dir'
           /\ dl_exists => dl_exists'

C7_NoCleanupKeepsArchives ==
    /\ [](script \in LibScripts /\ ~args.cleanup => ~rmtree_called)
    /\ [][C7_Step]_vars

\* C7: a run without cleanup that downloaded and extracted has ended with
\* its archives in place.
C7_Witness ==
    /\ script \in LibScripts
    /\ pc = "done"
    /\ ~args.cleanup
    /\ args.download
    /\ args.extract
    /\ dl_log # {}
    /\ {[particle |-> e.particle, file |-> e.file] : e \in dl_log}
          \subseteq dl_dir

\* The categories main() is done with.
JcPast(cat) ==
    \/ pc \in {"check", "from_endf", "export", "done"}
    \/ \E i \in 1..Len(JcOrder) : JcOrder[i] = cat /\ i < jcat

\* C8: generate_jendl_chain, per category: the archives are downloaded and
\* extracted exactly when no path was given; given paths are passed to
\* Chain.from_endf as they are, with no download, extraction or rename.
C8_DownloadIffNoPathGiven ==
    script = JendlChain =>
        \A cat \in {"neutron", "decay", "nfy"} :
            /\ jargs[cat] # {}
                 => /\ ops[cat] = {}
                    /\ \A e \in dl_log : e.particle # cat
            /\ jargs[cat] = {} /\ JcPast(cat)
                 => /\ {"download", "extract"} \subseteq ops[cat]
                    /\ \A i \in 1..Len(JcURLS(cat).compressed_files) :
                          [particle |-> cat,
                           file |-> JcURLS(cat).compressed_files[i],
                           checksum |-> "none"] \in dl_log
            /\ jargs[cat] # {} /\ from_endf.called
                 => from_endf[cat] = Coll("list", jargs[cat])

\* C8: a run with neutron paths given and decay downloaded has ended.
C8_Witness ==
    /\ script = JendlChain
    /\ pc = "done"
    /\ jargs.neutron # {}
    /\ jargs.decay = {}
    /\ ops.decay # {}

\* C9: generate_jendl_chain writes the chain to 'chain_jendl_{release}.xml'
\* when --destination is not given, and to the given path otherwise.
C9_ExportStep ==
    script = JendlChain /\ pc = "export"
        => exported' = IF jargs.destination = "None"
                       THEN "chain_jendl_" \o jargs.release \o ".xml"
                       ELSE jargs.destination

C9_DefaultDestinationName == [][C9_ExportStep]_vars

\* C10: generate_endf: in every table entry with 'checksums' the list is as
\* long as 'compressed_files'; the i-th file is downloaded with the i-th
\* checksum, no index error occurs, and only wmp is downloaded unverified.
C10_ChecksumPerFile ==
    script = GenEndf =>
        /\ \A rp \in EndfEntries :
              LET d == EndfDetails(rp[1], rp[2])
              IN d.has_checksums => Len(d.checksums) = Len(d.compressed_files)
        /\ err # "IndexError"
        /\ \A e \in dl_log :
              LET d == EndfDetails(release, e.particle)
              IN /\ \E i \in 1..Len(d.compressed_files) :
                       /\ d.compressed_files[i].name = e.file
                       /\ d.has_checksums => e.checksum = d.checksums[i]
                 /\ e.checksum = "none" <=> e.particle = "wmp"

\* C10: the second file of a two-file entry has been downloaded.
C10_Witness ==
    /\ script = GenEndf
    /\ release = "viii.0"
    /\ \E e \in dl_log : e.particle = "neutron" /\ e.file = "n-005_B_010.endf"

\* The extract phase of generate_endf.main is over.
ExtractDone ==
    script = GenEndf /\ args.extract /\ pc \in {"cleanup", "mkdirs"}

\* The last member of a list that is a regular file with base name n.
LastNamed(ms, n) ==
    CHOOSE i \in 1..Len(ms) :
        /\ ms[i].kind = "file" /\ PathName(ms[i].path) = n
        /\ \A j \in (i + 1)..Len(ms) :
              ~(ms[j].kind = "file" /\ PathName(ms[j].path) = n)

\* C11: every file the extraction of generate_endf writes lies directly in
\* the extraction directory, under the base name of the archive member it
\* comes from; that member is a regular file (directory entries and other
\* non-regular members are skipped); and of the members of an archive that
\* share a base name the last one is the file left.
C11_FlattenedExtraction ==
    \A e \in xdir :
        /\ Len(e.path) = 1
        /\ e.member > 0 =>
              /\ members[e.member].kind = "file"
              /\ e.path = <<PathName(members[e.member].path)>>
              /\ e.member = LastNamed(members, e.path[1])

\* C12: release viii.0, neutron selected, extraction enabled: once the
\* extract phase is over, neutron/n-005_B_010.endf in the endf directory is
\* the downloaded errata file, not the member of the zip.
C12_ErrataOverwritesZipCopy ==
    (ExtractDone /\ release = "viii.0" /\ "neutron" \in Selected) =>
        \A e \in xdir :
            (e.root = "endf" /\ e.particle = "neutron"
                /\ e.path = <<ErrataName>>) =>
            (e.origin = ErrataName /\ e.member = 0)

\* The zip held a file of that name, and the extraction has written it
\* before the errata file was copied.
C12_Witness ==
    /\ ExtractDone /\ release = "viii.0" /\ "neutron" \in Selected
    /\ \E i \in 1..Len(members) :
          members[i].kind = "file" /\ PathName(members[i].path) = ErrataName
    /\ \E e \in xdir :
          /\ e.root = "endf" /\ e.particle = "neutron"
          /\ e.path = <<ErrataName>> /\ e.origin = ErrataName

\* C13: a run of generate_endf with release viii.0 or viii.1 and 'wmp' among
\* the particles never ends normally and never writes cross_sections.xml,
\* whatever the download and extract flags and the place of 'wmp' in the
\* list.
C13_WmpUnavailableEndsInError ==
    (script = GenEndf /\ release \in {"viii.0", "viii.1"}
        /\ "wmp" \in Selected) =>
    (exported = "" /\ pc # "done")

\* The files of S in the order of their evaluations.
Asc(S) ==
    CHOOSE l \in Listings(S) :
        \A i \in 1..(Len(l) - 1) : l[i].eval < l[i + 1].eval

\* The sections of main() in the order of the code.
SectionOrder == <<"neutron", "thermal", "photon", "wmp">>

IsSelected(p) == p \in Selected

HasRun(p) == p \in processed

FilesOf(p) == IF p \in processed THEN Asc(h5[p]) ELSE <<>>

\* C14: the register_file calls depend on nothing but the set of particles
\* selected and the set of .h5 files the workers have written: the sections
\* register in the order neutron, thermal, photon, wmp whatever the order of
\* --particles, and the files of a pool section in the order of their
\* nuclides whatever the order in which glob yields them, the tasks were
\* submitted and the workers ended.
C14_RegistrationOrderFixed ==
    script \in LibScripts =>
        /\ reg_calls = FilesOf("neutron") \o FilesOf("thermal")
        /\ \A i \in 1..Len(registered) :
              registered[i] \in Selected
        /\ SelectSeq(SectionOrder, HasRun)
              = SelectSeq(registered, HasRun)
        /\ pc = "done" => registered = SelectSeq(SectionOrder, IsSelected)

\* A run that listed thermal before neutron, found the files in the reverse
\* order of their nuclides, and registered two files of one section.
C14_Witness ==
    /\ pc = "done"
    /\ Len(particles) > 1 /\ particles[1] = "thermal"
    /\ particles[2] = "neutron"
    /\ Len(jobs) > 1 /\ jobs[1] > jobs[2]
    /\ Cardinality(h5["thermal"]) > 1
    /\ Len(reg_calls) > 1

TasksEnded(p) ==
    \A i \in 1..Len(tasks[p]) : tasks[p][i].state \in {"ok", "failed"}

\* C15: for neutron and thermal, every task submitted has ended when the
\* pool is torn down and when the section registers its files; the export
\* happens when every selected section has registered, and a run that does
\* not raise ends with cross_sections.xml exported.
C15_RegistrationAndExportFinal ==
    script \in LibScripts =>
        /\ \A p \in PoolParticles :
              /\ pool[p] = "terminated" => TasksEnded(p)
              /\ (p \in processed \/ pc = p \o "_register") =>
                    (pool[p] = "terminated" /\ TasksEnded(p))
        /\ exported # "" =>
              /\ pc = "done"
              /\ registered = SelectSeq(SectionOrder, IsSelected)
        /\ pc = "done" => exported = "cross_sections.xml"

\* A finished run whose pool had two tasks and whose section registered.
C15_Witness ==
    /\ pc = "done"
    /\ exported = "cross_sections.xml"
    /\ \E p \in PoolParticles :
          /\ Len(tasks[p]) > 1
          /\ pool[p] = "terminated"
          /\ p \in processed

\* C16: when the library raises inside a pool worker, the run does not end
\* normally with cross_sections.xml exported.
C16_WorkerErrorReported ==
    (\E p \in PoolParticles : \E i \in 1..Len(tasks[p]) :
        tasks[p][i].state = "failed") =>
    (pc # "done" /\ exported = "")

\* 'word in name' for a file name split into its parts.
Contains(name, word) == \E i \in 1..Len(name) : name[i] = word

LiquidOrSolid(name) == Contains(name, "Liquid") \/ Contains(name, "Solid")

\* C17: generate_jendl with thermal selected: when the pool of the thermal
\* section opens (so before any process_thermal task), every thermal file of
\* 'sab_files' named Liquid or Solid has had exactly one update_zsymam call,
\* and no two calls name the same file or give the same symbol.
C17_LiquidSolidPatchedOnce ==
    (script = GenJendl
        /\ (pool["thermal"] # "none" \/ tasks["thermal"] # <<>>)) =>
        /\ \A i \in 1..Len(JendlSabFiles) :
              LiquidOrSolid(JendlSabFiles[i].thermal) =>
                 Cardinality({j \in 1..Len(zsymam) :
                     zsymam[j].file = JendlSabFiles[i].thermal}) = 1
        /\ \A j, k \in 1..Len(zsymam) :
              j # k => /\ zsymam[j].file # zsymam[k].file
                       /\ zsymam[j].zsymam # zsymam[k].zsymam

\* A process_thermal task of generate_jendl has been submitted after the
\* patch loop ran.
C17_Witness ==
    /\ script = GenJendl
    /\ tasks["thermal"] # <<>>
    /\ Len(zsymam) = Len(update_thermal_list)

====
